---- MODULE Spec2Model ----
(***************************************************************************)
(* Genetic-algorithm TSP engine of src/6-genetic_algo/tsp/                 *)
(* travelling_salesman3.py: Genome (mutation and crossover operators,     *)
(* fitness) and Population (generate_next_generation).                     *)
(*                                                                         *)
(* A chromosome is a Python list; it is modelled as a TLA+ sequence and    *)
(* read through the 0-based accessors Get/Set/Slice so that every index    *)
(* below is the index the Python code uses.  A city is modelled by its     *)
(* idx (an integer), Python's None by the value None.                      *)
(***************************************************************************)
EXTENDS Integers, Sequences, FiniteSets, TLC

\* ---------------------------------------------------------------- bounds
\* longest chromosome the operator harness (SpecOps) draws
MaxLen == 4
\* number of generate_next_generation calls a run of Spec makes
MaxGen == 2

\* ------------------------------------------------------- Python list model
None == -1

Get(l, i) == l[i + 1]

Set(l, i, v) == [l EXCEPT ![i + 1] = v]

\* l[a:b]
Slice(l, a, b) == SubSeq(l, a + 1, b)

\* x in l
In(x, l) == \E k \in 1..Len(l) : l[k] = x

\* list.reverse()
Reverse(l) == SubSeq([k \in 1..Len(l) |-> l[Len(l) + 1 - k]], 1, Len(l))

\* list.index(x): the first index holding x
IndexOf(l, x) == CHOOSE i \in 0..(Len(l) - 1) :
                    /\ Get(l, i) = x
                    /\ \A j \in 0..(i - 1) : Get(l, j) # x

\* list.remove(x): drops the first element equal to x
Remove(l, x) == LET k == CHOOSE k \in 1..Len(l) :
                              l[k] = x /\ \A j \in 1..(k - 1) : l[j] # x
                IN  SubSeq(l, 1, k - 1) \o SubSeq(l, k + 1, Len(l))

\* [None] * n (SubSeq makes the value a list proper)
Nones(n) == SubSeq([k \in 1..n |-> None], 1, n)

\* random.sample(range(n), k=2): two distinct positions, in drawn order
Sample2(n) == {pts \in (0..(n - 1)) \X (0..(n - 1)) : pts[1] # pts[2]}

\* points.sort()
SortPoints(pts) == IF pts[1] <= pts[2] THEN pts ELSE <<pts[2], pts[1]>>

\* ------------------------------------------------------ Genome: mutation
\* mutant: the exchange written as two plain assignments
swap_mutation_overwrite(chromosome, pts) ==
    LET p1 == pts[1]
        p2 == pts[2]
        first == Set(chromosome, p1, Get(chromosome, p2))
    IN  Set(first, p2, Get(first, p1))

swap_mutation(chromosome, pts) ==
    LET p1 == pts[1]
        p2 == pts[2]
    IN  Set(Set(chromosome, p1, Get(chromosome, p2)), p2, Get(chromosome, p1))

\* mutant: the reversed slice taken as [p1, p2]
inversion_mutation_closed(chromosome, pts) ==
    LET p1 == SortPoints(pts)[1]
        p2 == SortPoints(pts)[2]
        genes == Reverse(Slice(chromosome, p1, p2 + 1))
    IN  Slice(chromosome, 0, p1) \o genes \o Slice(chromosome, p2 + 1, Len(chromosome))

inversion_mutation(chromosome, pts) ==
    LET p1 == SortPoints(pts)[1]
        p2 == SortPoints(pts)[2]
        genes == Reverse(Slice(chromosome, p1, p2))
    IN  Slice(chromosome, 0, p1) \o genes \o Slice(chromosome, p2, Len(chromosome))

\* mutant: the exchange made between edge1[1] and edge2[1]
two_opt_mutation_successors(chromosome, pts) ==
    LET p1 == pts[1]
        p2 == pts[2]
        edge1 == <<p1, (p1 + 1) % Len(chromosome)>>
        edge2 == <<p2, (p2 + 1) % Len(chromosome)>>
    IN  Set(Set(chromosome, edge1[2], Get(chromosome, edge2[2])),
            edge2[2], Get(chromosome, edge1[2]))

two_opt_mutation(chromosome, pts) ==
    LET p1 == pts[1]
        p2 == pts[2]
        edge1 == <<p1, (p1 + 1) % Len(chromosome)>>
        edge2 == <<p2, (p2 + 1) % Len(chromosome)>>
    IN  Set(Set(chromosome, edge1[2], Get(chromosome, edge2[1])),
            edge2[1], Get(chromosome, edge1[2]))

MutationTypes == {"swap", "inverse", "2-opt", "random"}

\* a kind Genome.mutate has no branch for
UnsupportedMutationTypes == {"inversion"}

\* random.randrange(4)
RandRange4 == 0..3

\* mutant: the chain ends without its final else
mutate_operator_no_else(type, rand) ==
    IF type = "swap" THEN "swap"
    ELSE IF type = "inverse" THEN "inverse"
    ELSE IF type = "2-opt" THEN "2-opt"
    ELSE IF type = "random" THEN
        IF rand = 0 THEN "swap"
        ELSE IF rand = 1 THEN "inverse"
        ELSE IF rand = 2 THEN "2-opt"
        ELSE "none"
    ELSE "none"

\* the private operator Genome.mutate dispatches to: "none" when no branch
\* is taken, "raise" for the final else
mutate_operator(type, rand) ==
    IF type = "swap" THEN "swap"
    ELSE IF type = "inverse" THEN "inverse"
    ELSE IF type = "2-opt" THEN "2-opt"
    ELSE IF type = "random" THEN
        IF rand = 0 THEN "swap"
        ELSE IF rand = 1 THEN "inverse"
        ELSE IF rand = 2 THEN "2-opt"
        ELSE "none"
    ELSE "raise"

mutate(chromosome, type, rand, pts) ==
    LET operator == mutate_operator(type, rand)
    IN  IF operator = "swap" THEN swap_mutation(chromosome, pts)
        ELSE IF operator = "inverse" THEN inversion_mutation(chromosome, pts)
        ELSE IF operator = "2-opt" THEN two_opt_mutation(chromosome, pts)
        ELSE chromosome

\* ----------------------------------------------------- Genome: crossover
\* the second loop of orderly_insert: genes[k..] are still to be offered,
\* p is the running write position
RECURSIVE orderly_insert_loop(_, _, _, _)
orderly_insert_loop(genes, k, child_x, p) ==
    IF k > Len(genes) THEN child_x
    ELSE IF ~In(genes[k], child_x)
         THEN orderly_insert_loop(genes, k + 1,
                                  Set(child_x, p % Len(child_x), genes[k]), p + 1)
         ELSE orderly_insert_loop(genes, k + 1, child_x, p)

\* mutant: the accepted genes written from slot 0 on, into the empty slots
RECURSIVE orderly_insert_left_loop(_, _, _)
orderly_insert_left_loop(genes, k, child_x) ==
    IF k > Len(genes) THEN child_x
    ELSE IF ~In(genes[k], child_x)
         THEN orderly_insert_left_loop(genes, k + 1,
                                       Set(child_x, IndexOf(child_x, None), genes[k]))
         ELSE orderly_insert_left_loop(genes, k + 1, child_x)

orderly_insert_left(parent_x, child_x, point2) ==
    LET swapped_parent_x ==
            SubSeq([k \in 1..Len(parent_x) |->
                       Get(parent_x, (point2 + k - 1) % Len(parent_x))],
                   1, Len(parent_x))
    IN  orderly_insert_left_loop(swapped_parent_x, 1, child_x)

orderly_insert(parent_x, child_x, point2) ==
    LET swapped_parent_x ==
            SubSeq([k \in 1..Len(parent_x) |->
                       Get(parent_x, (point2 + k - 1) % Len(parent_x))],
                   1, Len(parent_x))
    IN  orderly_insert_loop(swapped_parent_x, 1, child_x, point2)

\* child[p1:p2] = segment, on a list of Nones
WithSegment(n, p1, p2, parent) ==
    SubSeq([k \in 1..n |-> IF p1 < k /\ k <= p2 THEN parent[k] ELSE None], 1, n)

\* mutant: each child filled from the parent its segment came from
order_crossover_own_fill(parent1, parent2, pts) ==
    LET p1 == SortPoints(pts)[1]
        p2 == SortPoints(pts)[2]
        child1_chromosome == WithSegment(Len(parent1), p1, p2, parent2)
        child2_chromosome == WithSegment(Len(parent2), p1, p2, parent1)
    IN  <<orderly_insert(parent2, child1_chromosome, p2),
          orderly_insert(parent1, child2_chromosome, p2)>>

order_crossover(parent1, parent2, pts) ==
    LET p1 == SortPoints(pts)[1]
        p2 == SortPoints(pts)[2]
        child1_chromosome == WithSegment(Len(parent1), p1, p2, parent2)
        child2_chromosome == WithSegment(Len(parent2), p1, p2, parent1)
    IN  <<orderly_insert(parent1, child1_chromosome, p2),
          orderly_insert(parent2, child2_chromosome, p2)>>

\* list(zip(parent1_segment, parent2_segment))
Zip(s1, s2) == SubSeq([k \in 1..Len(s1) |-> <<s1[k], s2[k]>>], 1, Len(s1))

\* the first pair of mappings that holds gene, 0 when there is none
FirstMapping(gene, mappings) ==
    IF \E k \in 1..Len(mappings) : gene = mappings[k][1] \/ gene = mappings[k][2]
    THEN CHOOSE k \in 1..Len(mappings) :
            /\ gene = mappings[k][1] \/ gene = mappings[k][2]
            /\ \A j \in 1..(k - 1) : gene # mappings[j][1] /\ gene # mappings[j][2]
    ELSE 0

\* mutant: the mapping followed for one step only
get_gene_counterpart_once(gene, mappings) ==
    LET k == FirstMapping(gene, mappings)
    IN  IF k = 0 THEN gene
        ELSE IF mappings[k][1] # gene THEN mappings[k][1] ELSE mappings[k][2]

RECURSIVE get_gene_counterpart(_, _)
get_gene_counterpart(gene, mappings) ==
    LET k == FirstMapping(gene, mappings)
    IN  IF k = 0 THEN gene
        ELSE LET mapped_values == mappings[k]
                 next == IF mapped_values[1] # gene THEN mapped_values[1]
                         ELSE mapped_values[2]
             IN  get_gene_counterpart(next, Remove(mappings, mapped_values))

\* mutant: the parent's gene copied whether or not the child holds it
RECURSIVE pmx_fill_chromosome_copy(_, _, _, _, _, _)
pmx_fill_chromosome_copy(chromosome, parent_x, mappings, p1, p2, i) ==
    IF i >= Len(parent_x) THEN chromosome
    ELSE IF i < p1 \/ i >= p2
         THEN pmx_fill_chromosome_copy(Set(chromosome, i, Get(parent_x, i)),
                                       parent_x, mappings, p1, p2, i + 1)
         ELSE pmx_fill_chromosome_copy(chromosome, parent_x, mappings, p1, p2, i + 1)

RECURSIVE pmx_fill_chromosome(_, _, _, _, _, _)
pmx_fill_chromosome(chromosome, parent_x, mappings, p1, p2, i) ==
    IF i >= Len(parent_x) THEN chromosome
    ELSE IF i < p1 \/ i >= p2
         THEN LET gene == Get(parent_x, i)
                  placed == IF ~In(gene, chromosome) THEN gene
                            ELSE get_gene_counterpart(gene, mappings)
              IN  pmx_fill_chromosome(Set(chromosome, i, placed), parent_x,
                                      mappings, p1, p2, i + 1)
         ELSE pmx_fill_chromosome(chromosome, parent_x, mappings, p1, p2, i + 1)

\* mutant: the crossover run with no mapping pair, so that a gene the child
\* already holds is placed as it is
partially_mapped_crossover_unmapped(parent1, parent2, pts) ==
    LET p1 == SortPoints(pts)[1]
        p2 == SortPoints(pts)[2]
        child1_x == WithSegment(Len(parent1), p1, p2, parent2)
        child2_x == WithSegment(Len(parent1), p1, p2, parent1)
    IN  <<pmx_fill_chromosome(child1_x, parent1, <<>>, p1, p2, 0),
          pmx_fill_chromosome(child2_x, parent2, <<>>, p1, p2, 0)>>

partially_mapped_crossover(parent1, parent2, pts) ==
    LET p1 == SortPoints(pts)[1]
        p2 == SortPoints(pts)[2]
        parent1_segment == Slice(parent1, p1, p2)
        parent2_segment == Slice(parent2, p1, p2)
        mappings == Zip(parent1_segment, parent2_segment)
        child1_x == WithSegment(Len(parent1), p1, p2, parent2)
        child2_x == WithSegment(Len(parent1), p1, p2, parent1)
    IN  <<pmx_fill_chromosome(child1_x, parent1, mappings, p1, p2, 0),
          pmx_fill_chromosome(child2_x, parent2, mappings, p1, p2, 0)>>

\* the while loop of __cycle_crossover, entered with the loop variables
\* index and parent1_gene; the loop body runs before `cycled` is tested
RECURSIVE cycle_loop(_, _, _, _, _, _)
cycle_loop(parent1, parent2, child1_x, child2_x, index, parent1_gene) ==
    LET parent2_gene == Get(parent2, index)
        c1 == Set(child1_x, index, parent1_gene)
        c2 == Set(child2_x, index, parent2_gene)
        index2 == IndexOf(parent2, parent1_gene)
        gene2 == Get(parent1, index2)
    IN  IF gene2 = Get(parent1, 0) THEN <<c1, c2>>
        ELSE cycle_loop(parent1, parent2, c1, c2, index2, gene2)

cx_fill_chromosome(chromosome, parent_x) ==
    SubSeq([k \in 1..Len(chromosome) |->
               IF chromosome[k] = None THEN parent_x[k] ELSE chromosome[k]],
           1, Len(chromosome))

cycle_crossover(parent1, parent2) ==
    LET cyc == cycle_loop(parent1, parent2, Nones(Len(parent1)),
                          Nones(Len(parent1)), 0, Get(parent1, 0))
    IN  <<cx_fill_chromosome(cyc[1], parent2), cx_fill_chromosome(cyc[2], parent1)>>

CrossoverTypes == {"ox", "pmx", "cx"}

\* a kind Genome.crossover has no branch for
UnsupportedCrossoverTypes == {"order"}

\* the if / elif chain has no else: for any other kind the method falls
\* off its end and returns None
crossover(parent1, parent2, c_type, pts) ==
    IF c_type = "ox" THEN order_crossover(parent1, parent2, pts)
    ELSE IF c_type = "pmx" THEN partially_mapped_crossover(parent1, parent2, pts)
    ELSE IF c_type = "cx" THEN cycle_crossover(parent1, parent2)
    ELSE None

\* ------------------------------------------------------------- chromosomes
\* the orderings random.sample(cities, len(cities)) can return
SampleAll(S) ==
    {s \in [1..Cardinality(S) -> S] : \A a, b \in 1..Cardinality(S) : a # b => s[a] # s[b]}

\* every city exactly once, no None slot
IsPermutationOf(chromosome, S) ==
    /\ Len(chromosome) = Cardinality(S)
    /\ \A c \in S : Cardinality({k \in 1..Len(chromosome) : chromosome[k] = c}) = 1


\* the positions a call draws with random.sample; a call that draws none
\* is recorded with <<0, 0>>
NoPoints == {<<0, 0>>}

\* the set of elements of a list
CitiesOf(l) == {l[k] : k \in 1..Len(l)}

\* ------------------------------------------------------ map and fitness
\* Map.__generate draws every city's position at random inside MAP_SIZE
\* and numbers the cities 0, 1, ...; the map of the model is one such
\* draw, the corners of a 4 x 3 rectangle (all distances are integers)
CityPositions == << <<0, 0>>, <<0, 3>>, <<4, 0>>, <<4, 3>> >>

\* math.dist on integer positions of the map
Sqrt(x) == CHOOSE r \in 0..x : r * r = x

distance(city1, city2) ==
    LET a == CityPositions[city1 + 1]
        b == CityPositions[city2 + 1]
    IN  Sqrt((a[1] - b[1]) * (a[1] - b[1]) + (a[2] - b[2]) * (a[2] - b[2]))

\* the loop of get_fitness from index k on
RECURSIVE tour_length(_, _)
tour_length(l, k) ==
    IF k >= Len(l) THEN 0
    ELSE distance(Get(l, k), Get(l, (k + 1) % Len(l))) + tour_length(l, k + 1)

\* 1 / fitness, as the fraction <<numerator, denominator>>
get_fitness(l) == <<1, tour_length(l, 0)>>

FitnessLess(f, g) == f[1] * g[2] < g[1] * f[2]

FitnessEqual(f, g) == f[1] * g[2] = g[1] * f[2]

FitnessLeq(f, g) == FitnessLess(f, g) \/ FitnessEqual(f, g)

\* --------------------------------------------- fitness in binary64
\* get_fitness adds the distances as Python floats (IEEE 754 binary64,
\* round to nearest, ties to even).  A positive float is [hi, lo, e]: its
\* 53-bit significand is hi * 2^27 + lo (2^52 <= significand < 2^53) and its
\* value significand * 2^e.  A pair <<hi, lo>> is a wider integer held the
\* same way.
Limb == 134217728

\* 2^25: hi of the smallest 53-bit significand
HiMin == 33554432

\* 0.0 (and the int 0 that fitness starts from)
Zero64 == [hi |-> 0, lo |-> 0, e |-> 0]

Shl1(w) ==
    LET lo2 == w[2] * 2
    IN  <<w[1] * 2 + lo2 \div Limb, lo2 % Limb>>

\* three more bits below the significand: guard, round and sticky
Shl3(w) == Shl1(Shl1(Shl1(w)))

\* one bit to the right; a 1 shifted out stays in the lowest bit
Shr1Sticky(w) ==
    LET lo2 == w[2] \div 2 + (w[1] % 2) * (Limb \div 2)
    IN  <<w[1] \div 2, IF w[2] % 2 = 1 /\ lo2 % 2 = 0 THEN lo2 + 1 ELSE lo2>>

RECURSIVE Pow2(_)
Pow2(k) == IF k = 0 THEN 1 ELSE 2 * Pow2(k - 1)

\* d bits to the right; a 1 shifted out stays in the lowest bit
RECURSIVE ShrSticky(_, _)
ShrSticky(w, d) ==
    IF d = 0 THEN w
    ELSE IF d >= 27
         THEN LET lo2 == w[1] % Limb
              IN  ShrSticky(<<w[1] \div Limb,
                              IF w[2] # 0 /\ lo2 % 2 = 0 THEN lo2 + 1 ELSE lo2>>,
                            d - 27)
         ELSE LET p == Pow2(d)
                  lo2 == w[2] \div p + (w[1] % p) * (Limb \div p)
              IN  <<w[1] \div p,
                    IF w[2] % p # 0 /\ lo2 % 2 = 0 THEN lo2 + 1 ELSE lo2>>

Less64(x, y) ==
    \/ x.e < y.e
    \/ x.e = y.e /\ (x.hi < y.hi \/ (x.hi = y.hi /\ x.lo < y.lo))

\* the 56-bit sum s (significand and three more bits) at exponent e,
\* rounded to 53 bits: to nearest, ties to even
Round64(s, e) ==
    LET r == s[2] % 8
        qlo == s[2] \div 8 + (s[1] % 8) * (Limb \div 8)
        qhi == s[1] \div 8
        up == r > 4 \/ (r = 4 /\ qlo % 2 = 1)
        lo1 == IF up THEN (qlo + 1) % Limb ELSE qlo
        hi1 == IF up /\ qlo + 1 = Limb THEN qhi + 1 ELSE qhi
    IN  IF hi1 = 2 * HiMin THEN [hi |-> HiMin, lo |-> 0, e |-> e + 1]
        ELSE [hi |-> hi1, lo |-> lo1, e |-> e]

\* x + y on two floats that are positive or zero
Add64(x, y) ==
    IF x = Zero64 THEN y
    ELSE IF y = Zero64 THEN x
    ELSE LET big == IF Less64(x, y) THEN y ELSE x
             small == IF Less64(x, y) THEN x ELSE y
             d == IF big.e - small.e > 60 THEN 60 ELSE big.e - small.e
             a == Shl3(<<big.hi, big.lo>>)
             b == ShrSticky(Shl3(<<small.hi, small.lo>>), d)
             lo2 == a[2] + b[2]
             sum == <<a[1] + b[1] + lo2 \div Limb, lo2 % Limb>>
         IN  IF sum[1] >= 16 * HiMin
             THEN Round64(Shr1Sticky(sum), big.e + 1)
             ELSE Round64(sum, big.e)

\* float(n) for a small integer n >= 0
RECURSIVE Normalize64(_, _)
Normalize64(w, e) ==
    IF w[1] >= HiMin THEN [hi |-> w[1], lo |-> w[2], e |-> e]
    ELSE Normalize64(Shl1(w), e - 1)

Float(n) == IF n = 0 THEN Zero64 ELSE Normalize64(<<0, n>>, 0)

\* a second draw of Map.__generate inside MAP_SIZE, for three cities
DrawnPositions == << <<137, 170>>, <<259, 130>>, <<188, 173>> >>

\* the maps fitness is evaluated on
Maps == {"rectangle", "drawn"}

Positions(map) == IF map = "rectangle" THEN CityPositions ELSE DrawnPositions

\* the float math.dist returns for a squared distance that is not a
\* perfect square, for the pairs of DrawnPositions:
\* 128.39003076563228, 51.088159097779204 and 83.00602387778854
Roots64 ==
    [sq \in {16484, 2610, 6890} |->
        IF sq = 16484 THEN [hi |-> 33656676, lo |-> 30202466, e |-> -45]
        ELSE IF sq = 2610 THEN [hi |-> 53569817, lo |-> 69003069, e |-> -47]
        ELSE [hi |-> 43519062, lo |-> 33130035, e |-> -46]]

\* distance(city1, city2) = math.dist(city1.position, city2.position)
distance64(map, city1, city2) ==
    LET a == Positions(map)[city1 + 1]
        b == Positions(map)[city2 + 1]
        sq == (a[1] - b[1]) * (a[1] - b[1]) + (a[2] - b[2]) * (a[2] - b[2])
    IN  IF \E r \in 0..sq : r * r = sq THEN Float(Sqrt(sq)) ELSE Roots64[sq]

\* mutant: the tour left open, without the edge from the last city back
\* to the first
tour_distances_open(map, l) ==
    SubSeq([k \in 1..(Len(l) - 1) |->
               distance64(map, Get(l, k - 1), Get(l, k))],
           1, Len(l) - 1)

\* the distances get_fitness adds, in the order of its loop: from
\* chromosome[i] to chromosome[(i+1) % len]
tour_distances(map, l) ==
    SubSeq([k \in 1..Len(l) |->
               distance64(map, Get(l, k - 1), Get(l, k % Len(l)))],
           1, Len(l))

\* fitness += distance(city1, city2), from the k-th distance on
RECURSIVE Sum64(_, _, _)
Sum64(ds, k, fitness) ==
    IF k > Len(ds) THEN fitness
    ELSE Sum64(ds, k + 1, Add64(fitness, ds[k]))

\* the float `fitness` holds after the loop of get_fitness
tour_length64(map, l) == Sum64(tour_distances(map, l), 1, Zero64)

\* mutant: sorted(members, key=fitness, reverse=True)
sort_members_descending(ms, heap) ==
    LET n == Len(ms)
        key == SubSeq([k \in 1..n |-> get_fitness(heap[ms[k]])], 1, n)
        rank == SubSeq([k \in 1..n |->
                    Cardinality({j \in 1..n :
                        \/ FitnessLess(key[k], key[j])
                        \/ (FitnessEqual(key[j], key[k]) /\ j < k)})], 1, n)
    IN  SubSeq([r \in 1..n |-> ms[CHOOSE k \in 1..n : rank[k] = r - 1]], 1, n)

\* sorted(members, key=fitness): ascending and stable; heap maps a
\* reference to its chromosome
sort_members(ms, heap) ==
    LET n == Len(ms)
        key == SubSeq([k \in 1..n |-> get_fitness(heap[ms[k]])], 1, n)
        rank == SubSeq([k \in 1..n |->
                    Cardinality({j \in 1..n :
                        \/ FitnessLess(key[j], key[k])
                        \/ (FitnessEqual(key[j], key[k]) /\ j < k)})], 1, n)
    IN  SubSeq([r \in 1..n |-> ms[CHOOSE k \in 1..n : rank[k] = r - 1]], 1, n)

\* mutant: l[:k]
FirstK(l, k) ==
    IF k >= Len(l) THEN l ELSE SubSeq(l, 1, k)

\* l[-k:]
LastK(l, k) ==
    IF k = 0 \/ k >= Len(l) THEN l ELSE SubSeq(l, Len(l) - k + 1, Len(l))

\* the pool of __top_k_selection: members[-k:] of the sorted members
top_k_pool(ms, heap, k) == LastK(sort_members(ms, heap), k)

\* ------------------------------------------------------------------ maze
\* the largest maze explored, in cells (height * width)
MaxCells == 6

\* a cell of the maze: (row, col), counted from 0
Cell(row, col) == <<row, col>>

\* self.walls[row][col]
Wall(walls, row, col) == walls[row + 1][col + 1]

\* Node(state, parent, action, cost); the parent is a reference into the
\* list of the nodes created so far, NoNode for None
NoNode == 0

NoAction == "None"

Node(state, parent, action, cost) ==
    [state |-> state, parent |-> parent, action |-> action, cost |-> cost]

\* mutant: the new node looked for in the frontier by identity, where it
\* never is
contains_identity(nodes, frontier, state) == FALSE

\* StackFrontier.contains: some node of the frontier has the state
contains(nodes, frontier, state) ==
    \E k \in 1..Len(frontier) : nodes[frontier[k]].state = state

\* the actions Maze.actions collects, before it shuffles them
available_actions(maze, state) ==
    LET row == state[1]
        col == state[2]
    IN  (IF row - 1 >= 0 /\ ~Wall(maze.walls, row - 1, col)
         THEN <<"up">> ELSE <<>>)
        \o (IF row + 1 < maze.height /\ ~Wall(maze.walls, row + 1, col)
            THEN <<"down">> ELSE <<>>)
        \o (IF col - 1 >= 0 /\ ~Wall(maze.walls, row, col - 1)
            THEN <<"left">> ELSE <<>>)
        \o (IF col + 1 < maze.width /\ ~Wall(maze.walls, row, col + 1)
            THEN <<"right">> ELSE <<>>)

\* random.shuffle(l): every ordering of the list
Shuffles(l) ==
    {SubSeq([k \in 1..Len(l) |-> l[f[k]]], 1, Len(l)) :
        f \in {g \in [1..Len(l) -> 1..Len(l)] :
                  \A a, b \in 1..Len(l) : a # b => g[a] # g[b]}}

\* Maze.actions: the available actions in one of their orders
actions(maze, state) == Shuffles(available_actions(maze, state))

\* Maze.result
result(state, action) ==
    LET row == state[1]
        col == state[2]
    IN  IF action = "up" THEN Cell(row - 1, col)
        ELSE IF action = "down" THEN Cell(row + 1, col)
        ELSE IF action = "right" THEN Cell(row, col + 1)
        ELSE IF action = "left" THEN Cell(row, col - 1)
        ELSE <<>>

\* the while loop of get_solution: the actions from the node back to the
\* root
RECURSIVE solution_loop(_, _, _)
solution_loop(nodes, node, solution) ==
    IF nodes[node].parent = NoNode THEN solution
    ELSE solution_loop(nodes, nodes[node].parent,
                       Append(solution, nodes[node].action))

\* Maze.get_solution
get_solution(nodes, node) == Reverse(solution_loop(nodes, node, <<>>))

\* the for loop of solve over the (shuffled) actions of the popped node,
\* from the k-th on: a node is created for each resulting state and added
\* to the frontier when no node of the frontier has its state and the
\* state is not explored.  Gives the nodes and the frontier after the loop
RECURSIVE expand(_, _, _, _, _, _)
expand(nodes, frontier, explored, node, acts, k) ==
    IF k > Len(acts) THEN <<nodes, frontier>>
    ELSE LET new_state == result(nodes[node].state, acts[k])
             new_node == Node(new_state, node, acts[k], nodes[node].cost + 1)
         IN  IF ~contains(nodes, frontier, new_state) /\ ~In(new_state, explored)
             THEN expand(Append(nodes, new_node),
                         Append(frontier, Len(nodes) + 1),
                         explored, node, acts, k + 1)
             ELSE expand(nodes, frontier, explored, node, acts, k + 1)

\* StackFrontier.pop: the last node of the frontier, and the frontier
\* without it
pop(frontier) == frontier[Len(frontier)]

popped(frontier) == SubSeq(frontier, 1, Len(frontier) - 1)

\* ------------------------------------------------------------------ state
VARIABLES
    \* the run's configuration: the module globals CITIES, POPULATION,
    \* ELITISM, GENERATIONS and the operator kinds __main__ runs a
    \* population with
    CITIES, POPULATION, ELITISM, GENERATIONS, c_type, m_type,
    \* the heap: Genome.chromosome of every Genome object allocated so far,
    \* by reference (1, 2, ...)
    chromosome,
    \* Population.members, a list of references
    members,
    \* generate_next_generation: position in the call and its locals
    pc, parents, i, child1, child2, next_gen_members,
    \* __main__: the genome the last call returned (0 before the first
    \* call), the number of calls completed and the best fitness seen
    best, generation, run_best_fitness,
    \* history: members and heap as they were when the running (or last)
    \* call was entered
    prev_members, prev_chromosome,
    \* the exception that ended the run ("none" while it runs), and the
    \* calls the running (or last) generate_next_generation made into the
    \* random module and the operators, in order
    raised, events,
    \* operator harness: the genomes handed to Genome.crossover / Genome.mutate,
    \* the call made on them with its random draws, and what the call left
    h_parent1, h_parent2, h_call, h_result,
    \* the maze: the Maze object (height, width, walls, start, goal), the
    \* Node objects solve has put into the frontier, by reference, and
    \* solve's position and locals: frontier.nodes, explored, the node
    \* popped last and the solution it printed
    maze, nodes, solve_pc, frontier, explored, node, solution

cfgvars == <<CITIES, POPULATION, ELITISM, GENERATIONS, c_type, m_type>>

popvars == <<chromosome, members, pc, parents, i, child1, child2,
             next_gen_members, best, generation, run_best_fitness,
             prev_members, prev_chromosome, raised, events>>

opsvars == <<h_parent1, h_parent2, h_call, h_result>>

mazevars == <<maze, nodes, solve_pc, frontier, explored, node, solution>>

vars == <<cfgvars, popvars, opsvars, mazevars>>

\* how a call ended: it returned, or it raised the named exception
Returned == "returned"

\* raise Exception('Invalid mutation type')
InvalidMutationType == "Exception: Invalid mutation type"

NoCall == [op |-> "none", type |-> "none", operator |-> "none",
           pts |-> <<0, 0>>, rand |-> 0, outcome |-> "none"]

\* no maze is constructed in a run of the genetic algorithm
NoMaze ==
    /\ maze = [height |-> 0, width |-> 0, walls |-> <<>>, start |-> <<>>,
               goal |-> <<>>]
    /\ nodes = <<>> /\ solve_pc = "none" /\ frontier = <<>>
    /\ explored = <<>> /\ node = NoNode /\ solution = <<>>

\* ------------------------------------------------------------ population
size == POPULATION

TOP_K == POPULATION \div 4

\* the run configurations explored.  The first six have ELITISM <=
\* POPULATION and POPULATION - ELITISM even; on two cities such a run makes
\* MaxGen calls, on three and four cities (where the operators branch far
\* more) it makes one.  Then: a run whose call pairs four parents, one with
\* POPULATION - ELITISM odd, one with ELITISM > POPULATION and one on a
\* single city (Population.__init__ accepts every size and map).
\* Every tour of two or of three cities has the same length; the tours of
\* the four cities have lengths 14, 16 and 18; the tour of one city has
\* length 0.
Configs ==
    {[CITIES |-> 2, POPULATION |-> 3, ELITISM |-> 1, GENERATIONS |-> MaxGen],
     [CITIES |-> 2, POPULATION |-> 4, ELITISM |-> 2, GENERATIONS |-> MaxGen],
     [CITIES |-> 2, POPULATION |-> 2, ELITISM |-> 2, GENERATIONS |-> MaxGen],
     [CITIES |-> 2, POPULATION |-> 2, ELITISM |-> 0, GENERATIONS |-> MaxGen],
     [CITIES |-> 3, POPULATION |-> 3, ELITISM |-> 1, GENERATIONS |-> 1],
     [CITIES |-> 4, POPULATION |-> 4, ELITISM |-> 2, GENERATIONS |-> 1],
     [CITIES |-> 2, POPULATION |-> 5, ELITISM |-> 1, GENERATIONS |-> 1],
     [CITIES |-> 2, POPULATION |-> 4, ELITISM |-> 1, GENERATIONS |-> 1],
     [CITIES |-> 2, POPULATION |-> 2, ELITISM |-> 3, GENERATIONS |-> 1],
     [CITIES |-> 1, POPULATION |-> 2, ELITISM |-> 2, GENERATIONS |-> 1]}

\* a run of two calls on the four cities, where tours differ in length:
\* the second call sorts and returns members the first call bred.  It is
\* explored for one pair of operator kinds and from the population whose
\* members all hold the longest tour, so that the calls can only improve
LongConfigs ==
    {[CITIES |-> 4, POPULATION |-> 4, ELITISM |-> 2, GENERATIONS |-> 2]}

LongCrossoverType == "cx"

LongMutationType == "swap"

LongOrderings == {<<0, 2, 1, 3>>}

\* the orderings the initial members are drawn from: on four cities a tour
\* of length 14 and one of length 18
InitialOrderings(n) ==
    IF n = 1 THEN {<<0>>}
    ELSE IF n = 2 THEN {<<0, 1>>, <<1, 0>>}
    ELSE IF n = 3 THEN {<<0, 1, 2>>, <<2, 0, 1>>}
    ELSE {<<0, 1, 3, 2>>, <<0, 2, 1, 3>>}

\* Population(POPULATION, map): __initialize has appended `size` genomes,
\* each a random ordering of the map's cities
Init ==
    /\ \E cfg \in Configs \cup LongConfigs :
        /\ CITIES = cfg.CITIES
        /\ POPULATION = cfg.POPULATION
        /\ ELITISM = cfg.ELITISM
        /\ GENERATIONS = cfg.GENERATIONS
        /\ members = [k \in 1..cfg.POPULATION |-> k]
        /\ IF cfg \in LongConfigs
           THEN /\ chromosome \in [1..cfg.POPULATION -> LongOrderings]
                /\ c_type = LongCrossoverType
                /\ m_type = LongMutationType
           ELSE /\ chromosome \in [1..cfg.POPULATION ->
                                      InitialOrderings(cfg.CITIES)]
                /\ c_type \in CrossoverTypes \cup UnsupportedCrossoverTypes
                /\ m_type \in MutationTypes \cup UnsupportedMutationTypes
    /\ pc = "idle" /\ parents = <<>> /\ i = 0 /\ child1 = 0 /\ child2 = 0
    /\ next_gen_members = <<>> /\ best = 0 /\ generation = 0
    /\ run_best_fitness = <<0, 1>>
    /\ prev_members = <<>> /\ prev_chromosome = <<>>
    /\ raised = "none" /\ events = <<>>
    /\ h_parent1 = <<>> /\ h_parent2 = <<>> /\ h_call = NoCall /\ h_result = <<>>
    /\ NoMaze

\* random.choices(top_k, k=n): n draws with replacement (none for n <= 0)
Choices(pool, n) == IF n <= 0 THEN {<<>>} ELSE [1..n -> CitiesOf(pool)]

\* one call into the random module or an operator: which, for the pair
\* starting at which index of parents, and how many random values it took
Event(op, pair, drawn) == [op |-> op, pair |-> pair, drawn |-> drawn]

\* the random values Genome.mutate takes: one for randrange, two positions
\* for the operator it runs
MutateDrawn(type, rand) ==
    (IF type = "random" THEN 1 ELSE 0)
    + (IF mutate_operator(type, rand) \in {"none", "raise"} THEN 0 ELSE 2)

\* the exceptions the interpreter raises inside generate_next_generation
ZeroDivisionError == "ZeroDivisionError"

IndexError == "IndexError"

TypeError == "TypeError"

\* 1 / fitness raises for a tour of length 0
FitnessRaises(ms, heap) ==
    \E k \in 1..Len(ms) : tour_length(heap[ms[k]], 0) = 0

\* the heap once only the genomes in `live` are referenced: an object no
\* reference reaches is freed (its slot holds the empty list)
Collect(heap, live) ==
    SubSeq([g \in 1..Len(heap) |-> IF g \in live THEN heap[g] ELSE <<>>],
           1, Len(heap))

\* an exception leaves generate_next_generation and, uncaught, __main__:
\* the call's locals are gone, self.members was not assigned
Raise(exception) ==
    /\ pc' = "raised"
    /\ raised' = exception
    /\ parents' = <<>> /\ i' = 0 /\ child1' = 0 /\ child2' = 0
    /\ next_gen_members' = <<>>
    /\ chromosome' = Collect(chromosome, CitiesOf(members) \cup ({best} \ {0}))
    /\ UNCHANGED <<cfgvars, opsvars, mazevars, members, best, generation,
                   run_best_fitness>>

\* __main__, for i in range(GENERATIONS): generate_next_generation is
\* entered; next_gen_members = [], the members are sorted and the parents
\* are drawn by __top_k_selection
Select ==
    /\ pc = "idle"
    /\ generation < GENERATIONS
    /\ ~FitnessRaises(members, chromosome)
    /\ parents' \in Choices(top_k_pool(members, chromosome, TOP_K), size - ELITISM)
    /\ events' = <<Event("select", 0, Len(parents'))>>
    /\ next_gen_members' = <<>>
    /\ i' = 0
    /\ pc' = "crossover"
    /\ prev_members' = members
    /\ prev_chromosome' = chromosome
    /\ UNCHANGED <<cfgvars, opsvars, mazevars, chromosome, members, child1,
                   child2, best, generation, run_best_fitness, raised>>

\* __sort_members evaluates get_fitness of every member before anything
\* is drawn: 1 / 0 raises ZeroDivisionError
SelectZeroDivision ==
    /\ pc = "idle"
    /\ generation < GENERATIONS
    /\ FitnessRaises(members, chromosome)
    /\ events' = <<>>
    /\ prev_members' = members
    /\ prev_chromosome' = chromosome
    /\ Raise(ZeroDivisionError)

\* mutant: range(0, parents_n)
NextPairByOne(k) == k + 1

\* the step of range(0, parents_n, 2)
NextPair(k) == k + 2

\* mutant: the children stored in the parents' Genome objects
NewGenomesInPlace(heap, parent1, parent2, children) ==
    <<[[heap EXCEPT ![parent1] = children[1]] EXCEPT ![parent2] = children[2]],
      parent1, parent2>>

\* Genome(child1_chromosome), Genome(child2_chromosome): two new objects
\* holding the two new lists; the new heap and the two references
NewGenomes(heap, parent1, parent2, children) ==
    <<heap \o children, Len(heap) + 1, Len(heap) + 2>>

\* loop body, first statement: the two children of parents[i], parents[i+1]
\* are new Genome objects holding new lists
Crossover ==
    /\ pc = "crossover"
    /\ i < size - ELITISM
    /\ i + 1 < Len(parents)
    /\ c_type \in CrossoverTypes
    /\ LET parent1 == parents[i + 1]
           parent2 == parents[i + 2]
           n == Len(chromosome[parent1])
       IN  \E pts \in IF c_type = "cx" THEN NoPoints ELSE Sample2(n) :
            LET children == crossover(chromosome[parent1], chromosome[parent2],
                                      c_type, pts)
                new == NewGenomes(chromosome, parent1, parent2, children)
            IN  /\ chromosome' = new[1]
                /\ child1' = new[2]
                /\ child2' = new[3]
    /\ events' = Append(events, Event("crossover", i,
                                       IF c_type = "cx" THEN 0 ELSE 2))
    /\ pc' = "mutate1"
    /\ UNCHANGED <<cfgvars, opsvars, mazevars, members, parents, i,
                   next_gen_members, best, generation, run_best_fitness, prev_members,
                   prev_chromosome, raised>>

\* parent2 = parents[i + 1] with an odd number of parents: the last index
\* is out of range
PairIndexError ==
    /\ pc = "crossover"
    /\ i < size - ELITISM
    /\ i + 1 >= Len(parents)
    /\ UNCHANGED <<events, prev_members, prev_chromosome>>
    /\ Raise(IndexError)

\* child1, child2 = Genome.crossover(...) with a kind crossover has no
\* branch for: the call returns None, and unpacking None raises TypeError
UnpackTypeError ==
    /\ pc = "crossover"
    /\ i < size - ELITISM
    /\ i + 1 < Len(parents)
    /\ c_type \notin CrossoverTypes
    /\ events' = Append(events, Event("crossover", i, 0))
    /\ UNCHANGED <<prev_members, prev_chromosome>>
    /\ Raise(TypeError)

\* genome.mutate(type) on the heap
MutateGenome(genome) ==
    \E rand \in IF m_type = "random" THEN RandRange4 ELSE {0} :
    \E pts \in IF mutate_operator(m_type, rand) = "none" THEN NoPoints
               ELSE Sample2(Len(chromosome[genome])) :
        /\ chromosome' = [chromosome EXCEPT
                            ![genome] = mutate(chromosome[genome], m_type, rand, pts)]
        /\ events' = Append(events, Event("mutate", i, MutateDrawn(m_type, rand)))

\* child1.mutate(type=m_type)
Mutate1 ==
    /\ pc = "mutate1"
    /\ m_type \in MutationTypes
    /\ MutateGenome(child1)
    /\ pc' = "mutate2"
    /\ UNCHANGED <<cfgvars, opsvars, mazevars, members, parents, i, child1,
                   child2, next_gen_members, best, generation, run_best_fitness,
                   prev_members, prev_chromosome, raised>>

\* child2.mutate(type=m_type), then both children are appended and the
\* loop moves to the next pair
Mutate2 ==
    /\ pc = "mutate2"
    /\ m_type \in MutationTypes
    /\ MutateGenome(child2)
    /\ next_gen_members' = next_gen_members \o <<child1, child2>>
    /\ i' = NextPair(i)
    /\ pc' = "crossover"
    /\ UNCHANGED <<cfgvars, opsvars, mazevars, members, parents, child1,
                   child2, best, generation, run_best_fitness, prev_members,
                   prev_chromosome, raised>>

\* child1.mutate(type=m_type) with a kind mutate has no branch for: the
\* final else raises before anything is drawn or changed
MutateRaise ==
    /\ pc = "mutate1"
    /\ m_type \notin MutationTypes
    /\ events' = Append(events, Event("mutate", i, 0))
    /\ UNCHANGED <<prev_members, prev_chromosome>>
    /\ Raise(InvalidMutationType)

\* after the loop: the elites of the sorted current members are appended,
\* the members are replaced and the last of the sorted members is
\* returned; the call's locals and the genomes only they referenced are gone
Replace ==
    /\ pc = "crossover"
    /\ i >= size - ELITISM
    /\ LET sorted_members == sort_members(members, chromosome)
           new_members == next_gen_members \o LastK(sorted_members, ELITISM)
           returned == sorted_members[Len(sorted_members)]
       IN  /\ members' = new_members
           /\ best' = returned
           /\ chromosome' = Collect(chromosome, CitiesOf(new_members) \cup {returned})
    /\ parents' = <<>> /\ i' = 0 /\ child1' = 0 /\ child2' = 0
    /\ next_gen_members' = <<>>
    /\ pc' = "returned"
    /\ UNCHANGED <<cfgvars, opsvars, mazevars, generation, run_best_fitness,
                   prev_members, prev_chromosome, raised, events>>

\* __main__, rest of the loop body: the returned genome's fitness is
\* compared with the best of the run
Report ==
    /\ pc = "returned"
    /\ LET best_fitness == get_fitness(chromosome[best])
       IN  run_best_fitness' = IF FitnessLess(run_best_fitness, best_fitness)
                               THEN best_fitness ELSE run_best_fitness
    /\ generation' = generation + 1
    /\ pc' = "idle"
    /\ prev_members' = <<>>
    /\ prev_chromosome' = <<>>
    /\ events' = <<>>
    /\ UNCHANGED <<cfgvars, opsvars, mazevars, chromosome, members, parents,
                   i, child1, child2, next_gen_members, best, raised>>

Next ==
    \/ Select \/ SelectZeroDivision
    \/ Crossover \/ PairIndexError \/ UnpackTypeError
    \/ Mutate1 \/ Mutate2 \/ MutateRaise
    \/ Replace \/ Report

Spec == Init /\ [][Next]_vars

\* ---------------------------------------------------- operator harness
\* the parents of the concrete order-crossover scenario
ScenarioParent1 == <<1, 2, 3, 4, 5>>

ScenarioParent2 == <<5, 4, 3, 2, 1>>

\* no population is constructed in the harness
NoPopulation ==
    /\ CITIES = 0 /\ POPULATION = 0 /\ ELITISM = 0 /\ GENERATIONS = 0
    /\ c_type = "none" /\ m_type = "none"
    /\ chromosome = <<>> /\ members = <<>>
    /\ pc = "idle" /\ parents = <<>> /\ i = 0 /\ child1 = 0 /\ child2 = 0
    /\ next_gen_members = <<>> /\ best = 0 /\ generation = 0
    /\ run_best_fitness = <<0, 1>>
    /\ prev_members = <<>> /\ prev_chromosome = <<>>
    /\ raised = "none" /\ events = <<>>

\* the inputs of one call: two genomes over the same city set for a
\* crossover (every pair of orderings of up to MaxLen cities, and the
\* scenario pair), or one genome for a mutation (h_parent2 is then empty)
OpsInit ==
    /\ \/ \E n \in 2..MaxLen :
            /\ h_parent1 \in SampleAll(0..(n - 1))
            /\ h_parent2 \in SampleAll(0..(n - 1)) \cup {<<>>}
       \/ /\ h_parent1 = ScenarioParent1
          /\ h_parent2 = ScenarioParent2
    /\ h_call = NoCall
    /\ h_result = <<>>
    /\ NoPopulation
    /\ NoMaze

\* Genome.crossover(parent1, parent2, c_type); only the order and the
\* partially-mapped crossover draw cut points.  h_result holds what the
\* call returned
HarnessCrossover ==
    /\ h_call.op = "none"
    /\ h_parent2 # <<>>
    /\ \E kind \in CrossoverTypes \cup UnsupportedCrossoverTypes :
       \E pts \in IF kind \in {"ox", "pmx"} THEN Sample2(Len(h_parent1))
                  ELSE NoPoints :
        /\ h_call' = [op |-> "crossover", type |-> kind,
                      operator |-> IF kind \in CrossoverTypes THEN kind ELSE "none",
                      pts |-> pts, rand |-> 0, outcome |-> Returned]
        /\ h_result' = crossover(h_parent1, h_parent2, kind, pts)
    /\ UNCHANGED <<h_parent1, h_parent2, cfgvars, popvars, mazevars>>

\* parent1.mutate(type): h_result holds the chromosome after the call;
\* only 'random' draws rand, and only a dispatched operator draws
\* positions; the final else raises Exception('Invalid mutation type')
HarnessMutate ==
    /\ h_call.op = "none"
    /\ h_parent2 = <<>>
    /\ \E type \in MutationTypes \cup UnsupportedMutationTypes :
       \E rand \in IF type = "random" THEN RandRange4 ELSE {0} :
       \E pts \in IF mutate_operator(type, rand) \in {"none", "raise"} THEN NoPoints
                  ELSE Sample2(Len(h_parent1)) :
        /\ h_call' = [op |-> "mutate", type |-> type,
                      operator |-> mutate_operator(type, rand),
                      pts |-> pts, rand |-> rand,
                      outcome |-> IF mutate_operator(type, rand) = "raise"
                                  THEN InvalidMutationType ELSE Returned]
        /\ h_result' = <<mutate(h_parent1, type, rand, pts)>>
    /\ UNCHANGED <<h_parent1, h_parent2, cfgvars, popvars, mazevars>>

\* l[k:] + l[:k]
Rotate(l, k) == Slice(l, k, Len(l)) \o Slice(l, 0, k)

\* the rotations of a chromosome and its reversal
Rearrangements(l) ==
    {[operator |-> "rotate", k |-> k, chromosome |-> Rotate(l, k)] :
        k \in 1..(Len(l) - 1)}
    \cup {[operator |-> "reverse", k |-> 0, chromosome |-> Reverse(l)]}

\* get_fitness on parent1 and on a rotation or the reversal of it, on a
\* map that has its cities: h_result holds the rearranged chromosome and
\* the two tour lengths the loop of get_fitness computes
HarnessFitness ==
    /\ h_call.op = "none"
    /\ h_parent2 = <<>>
    /\ \E map \in Maps :
       \E re \in Rearrangements(h_parent1) :
        /\ Len(h_parent1) <= Len(Positions(map))
        /\ h_call' = [op |-> "get_fitness", type |-> map,
                      operator |-> re.operator, pts |-> <<re.k, 0>>,
                      rand |-> 0, outcome |-> Returned]
        /\ h_result' = <<re.chromosome, tour_length64(map, h_parent1),
                         tour_length64(map, re.chromosome)>>
    /\ UNCHANGED <<h_parent1, h_parent2, cfgvars, popvars, mazevars>>

OpsNext == HarnessCrossover \/ HarnessMutate \/ HarnessFitness

SpecOps == OpsInit /\ [][OpsNext]_vars

\* ------------------------------------------------------------ maze solver
\* the shapes (height, width) of the mazes explored: room for a start and
\* a goal, and no more than MaxCells cells
Shapes ==
    {hw \in (1..MaxCells) \X (1..MaxCells) :
        hw[1] * hw[2] >= 2 /\ hw[1] * hw[2] <= MaxCells}

\* the cells of a maze of the given height and width
Cells(h, w) == (0..(h - 1)) \X (0..(w - 1))

\* raise Exception("no solution")
NoSolution == "Exception: no solution"

\* Maze(filepath) on a file with one A and one B: walls is a height x width
\* list of rows of bools (short lines filled up with open cells), start
\* and goal are two different cells without a wall
MazeInit ==
    /\ \E hw \in Shapes :
       \E ws \in [1..hw[1] -> [1..hw[2] -> BOOLEAN]] :
       \E a, b \in Cells(hw[1], hw[2]) :
        /\ a # b
        /\ ~Wall(ws, a[1], a[2])
        /\ ~Wall(ws, b[1], b[2])
        /\ maze = [height |-> hw[1], width |-> hw[2], walls |-> ws,
                   start |-> a, goal |-> b]
    /\ nodes = <<>> /\ solve_pc = "constructed" /\ frontier = <<>>
    /\ explored = <<>> /\ node = NoNode /\ solution = <<>>
    /\ NoPopulation
    /\ h_parent1 = <<>> /\ h_parent2 = <<>> /\ h_call = NoCall /\ h_result = <<>>

\* solve is entered: the root node is created and added to the frontier,
\* explored = []
EnterSolve ==
    /\ solve_pc = "constructed"
    /\ nodes' = <<Node(maze.start, NoNode, NoAction, 0)>>
    /\ frontier' = <<1>>
    /\ explored' = <<>>
    /\ solve_pc' = "loop"
    /\ UNCHANGED <<cfgvars, popvars, opsvars, maze, node, solution>>

\* an iteration of the while loop that finds the frontier empty
RaiseNoSolution ==
    /\ solve_pc = "loop"
    /\ frontier = <<>>
    /\ solve_pc' = NoSolution
    /\ UNCHANGED <<cfgvars, popvars, opsvars, maze, nodes, frontier, explored,
                   node, solution>>

\* an iteration that pops a node whose state is the goal: the solution is
\* read off the node's ancestors and the loop is left
Found ==
    /\ solve_pc = "loop"
    /\ frontier # <<>>
    /\ nodes[pop(frontier)].state = maze.goal
    /\ node' = pop(frontier)
    /\ frontier' = popped(frontier)
    /\ solution' = get_solution(nodes, pop(frontier))
    /\ solve_pc' = "solved"
    /\ UNCHANGED <<cfgvars, popvars, opsvars, maze, nodes, explored>>

\* an iteration that pops another node: its state is explored and the node
\* is expanded over its actions, in the order the shuffle left them
Expand ==
    /\ solve_pc = "loop"
    /\ frontier # <<>>
    /\ nodes[pop(frontier)].state # maze.goal
    /\ node' = pop(frontier)
    /\ explored' = Append(explored, nodes[pop(frontier)].state)
    /\ \E acts \in actions(maze, nodes[pop(frontier)].state) :
        LET after == expand(nodes, popped(frontier), explored',
                            pop(frontier), acts, 1)
        IN  /\ nodes' = after[1]
            /\ frontier' = after[2]
    /\ UNCHANGED <<cfgvars, popvars, opsvars, maze, solution, solve_pc>>

MazeNext == EnterSolve \/ RaiseNoSolution \/ Found \/ Expand

\* solve runs in one thread that nothing suspends: while an iteration is
\* possible, one is taken
SpecMaze == MazeInit /\ [][MazeNext]_vars /\ WF_vars(MazeNext)

\* ------------------------------------------------------------------ claims
\* C1: for every crossover kind, every pair of parents that are permutations
\* of the same city set and every choice of cut points, both children are
\* permutations of that city set (every city once, no None slot).
C1_ChildrenArePermutations ==
    (h_call.op = "crossover" /\ h_call.type \in CrossoverTypes) =>
        /\ Len(h_result) = 2
        /\ IsPermutationOf(h_result[1], CitiesOf(h_parent1))
        /\ IsPermutationOf(h_result[2], CitiesOf(h_parent1))

\* a partially-mapped crossover that had to resolve a conflict through the
\* mapping: child1 holds, outside the segment, a gene parent1 does not hold there
C1_Witness ==
    /\ h_call.op = "crossover"
    /\ h_call.type = "pmx"
    /\ Len(h_parent1) = 4
    /\ \E k \in 1..4 :
        /\ ~(SortPoints(h_call.pts)[1] < k /\ k <= SortPoints(h_call.pts)[2])
        /\ h_result[1][k] # h_parent1[k]
    /\ IsPermutationOf(h_result[1], CitiesOf(h_parent1))


\* the cities of the run's map
MapCities == 0..(CITIES - 1)

\* the fitness a genome had when the call was entered
PrevFitness(g) == get_fitness(prev_chromosome[g])

\* C2: in every reachable state, after construction and after any sequence
\* of generate_next_generation calls with any crossover and mutation kind,
\* every member's chromosome is a permutation of the full city set.
C2_MembersArePermutations ==
    \A k \in 1..Len(members) :
        IsPermutationOf(chromosome[members[k]], MapCities)

\* the second call of a pmx / random run has returned and left a member
\* that this call created
C2_Witness ==
    /\ pc = "returned"
    /\ generation = 1
    /\ c_type = "pmx"
    /\ m_type = "random"
    /\ \E k \in 1..Len(members) :
        /\ members[k] > Len(prev_chromosome)
        /\ IsPermutationOf(chromosome[members[k]], MapCities)

\* C3 as stated: for every valid configuration the number of members after
\* generate_next_generation equals the number before it and the target size.
C3_SizePreserved ==
    pc = "returned" =>
        /\ Len(members) = Len(prev_members)
        /\ Len(members) = size

\* C4: after every call the ELITISM highest-fitness members of the pre-step
\* population are members of the new population, as the same objects and
\* with the chromosomes they had before the step.
C4_ElitesCarriedOver ==
    pc = "returned" =>
        \E S \in SUBSET (1..Len(prev_members)) :
            /\ Cardinality(S) = IF ELITISM <= Len(prev_members)
                                THEN ELITISM ELSE Len(prev_members)
            /\ \A a \in S : \A b \in (1..Len(prev_members)) \ S :
                    FitnessLeq(PrevFitness(prev_members[b]),
                               PrevFitness(prev_members[a]))
            /\ \A a \in S :
                /\ \E k \in 1..Len(members) : members[k] = prev_members[a]
                /\ chromosome[prev_members[a]] = prev_chromosome[prev_members[a]]

\* a call on four cities has returned; the pre-step members had different
\* fitnesses and a member that was not among the two fittest is gone
C4_Witness ==
    /\ pc = "returned"
    /\ CITIES = 4
    /\ ELITISM = 2
    /\ \E a, b \in 1..Len(prev_members) :
        /\ FitnessLess(PrevFitness(prev_members[a]), PrevFitness(prev_members[b]))
        /\ \A k \in 1..Len(members) : members[k] # prev_members[a]
        /\ \E k \in 1..Len(members) : members[k] = prev_members[b]

\* C5: the call returns a genome that was a member before the replacement,
\* whose fitness is at least that of every pre-step member; it is not one
\* of the freshly produced children.
C5_ReturnsPreStepBest ==
    pc = "returned" =>
        /\ \E k \in 1..Len(prev_members) : prev_members[k] = best
        /\ best <= Len(prev_chromosome)
        /\ \A k \in 1..Len(prev_members) :
                FitnessLeq(PrevFitness(prev_members[k]), get_fitness(chromosome[best]))

\* a call on four cities has returned a pre-step member although a child
\* produced by the call is fitter than it
C5_Witness ==
    /\ pc = "returned"
    /\ CITIES = 4
    /\ \E k \in 1..Len(prev_members) : prev_members[k] = best
    /\ \E k \in 1..Len(members) :
        /\ members[k] > Len(prev_chromosome)
        /\ FitnessLess(get_fitness(chromosome[best]),
                       get_fitness(chromosome[members[k]]))

\* the chromosome Genome.mutate was called on, and what it left
MutIn == h_parent1

MutOut == h_result[1]

MutLen == Len(h_parent1)

\* C6 as stated: the edge-exchange mutation swaps exactly the cities at
\* s1 = (p1+1) mod n and s2 = (p2+1) mod n and leaves the rest unchanged.
C6_SwapsSuccessors ==
    (h_call.op = "mutate" /\ h_call.operator = "2-opt") =>
        LET s1 == (h_call.pts[1] + 1) % MutLen
            s2 == (h_call.pts[2] + 1) % MutLen
        IN  \A k \in 0..(MutLen - 1) :
                Get(MutOut, k) = IF k = s1 THEN Get(MutIn, s2)
                                 ELSE IF k = s2 THEN Get(MutIn, s1)
                                 ELSE Get(MutIn, k)

\* C6 amended: the edge-exchange mutation swaps exactly the cities at
\* positions (p1+1) mod n and p2 (the successor of the first drawn position
\* and the second drawn position itself) and leaves the rest unchanged.
C6_SwapsSuccessorOfP1WithP2 ==
    (h_call.op = "mutate" /\ h_call.operator = "2-opt") =>
        LET s1 == (h_call.pts[1] + 1) % MutLen
            p2 == h_call.pts[2]
        IN  \A k \in 0..(MutLen - 1) :
                Get(MutOut, k) = IF k = s1 THEN Get(MutIn, p2)
                                 ELSE IF k = p2 THEN Get(MutIn, s1)
                                 ELSE Get(MutIn, k)

\* an edge exchange on four cities whose two exchanged positions differ
C6_Witness ==
    /\ h_call.op = "mutate"
    /\ h_call.type = "2-opt"
    /\ MutLen = 4
    /\ (h_call.pts[1] + 1) % MutLen # h_call.pts[2]
    /\ MutOut # MutIn

\* C7 as stated: mutate('random') always applies one of swap, inversion,
\* edge-exchange: no outcome of its draw leaves the genome without an
\* operator applied.
C7_RandomAlwaysApplies ==
    (h_call.op = "mutate" /\ h_call.type = "random") =>
        h_call.operator \in {"swap", "inverse", "2-opt"}

\* C8: mutate('swap') on a permutation of length >= 2 changes exactly two
\* positions, which exchange their cities, leaves the others unchanged and
\* leaves a permutation.
C8_SwapChangesTwo ==
    (h_call.op = "mutate" /\ h_call.type = "swap") =>
        LET p1 == h_call.pts[1]
            p2 == h_call.pts[2]
        IN  /\ Cardinality({k \in 1..MutLen : MutOut[k] # MutIn[k]}) = 2
            /\ Get(MutOut, p1) = Get(MutIn, p2)
            /\ Get(MutOut, p2) = Get(MutIn, p1)
            /\ \A k \in 0..(MutLen - 1) :
                    (k # p1 /\ k # p2) => Get(MutOut, k) = Get(MutIn, k)
            /\ IsPermutationOf(MutOut, CitiesOf(MutIn))

\* a swap mutation of the first and the last of four cities
C8_Witness ==
    /\ h_call.op = "mutate"
    /\ h_call.type = "swap"
    /\ MutLen = 4
    /\ h_call.pts = <<3, 0>>
    /\ MutOut[1] = MutIn[4]

\* C9: the inversion mutation with ordered draws p1 < p2 leaves the
\* positions outside [p1, p2) as they were, holds inside it the previous
\* sub-sequence reversed, and keeps the multiset of cities.
C9_InversionReversesSegment ==
    (h_call.op = "mutate" /\ h_call.operator = "inverse") =>
        LET p1 == SortPoints(h_call.pts)[1]
            p2 == SortPoints(h_call.pts)[2]
        IN  /\ Len(MutOut) = MutLen
            /\ \A k \in 0..(MutLen - 1) :
                    Get(MutOut, k) = IF p1 <= k /\ k < p2
                                     THEN Get(MutIn, p1 + p2 - 1 - k)
                                     ELSE Get(MutIn, k)
            /\ \A c \in CitiesOf(MutIn) \cup CitiesOf(MutOut) :
                    Cardinality({k \in 1..MutLen : MutOut[k] = c})
                        = Cardinality({k \in 1..MutLen : MutIn[k] = c})

\* an inversion of the three-city segment [0, 3) of four cities
C9_Witness ==
    /\ h_call.op = "mutate"
    /\ h_call.type = "inverse"
    /\ MutLen = 4
    /\ SortPoints(h_call.pts) = <<0, 3>>
    /\ MutOut[1] = MutIn[3]
    /\ MutOut[3] = MutIn[1]
    /\ MutOut[4] = MutIn[4]

\* the order crossover of the scenario parents with cut points (1, 3)
OxScenario ==
    /\ h_call.op = "crossover"
    /\ h_call.type = "ox"
    /\ h_parent1 = ScenarioParent1
    /\ h_parent2 = ScenarioParent2
    /\ SortPoints(h_call.pts) = <<1, 3>>

\* C10 as stated: order crossover on [1,2,3,4,5] and [5,4,3,2,1] with cut
\* points (1,3) yields child1 = [5,4,3,1,2].
C10_ScenarioChild ==
    OxScenario => h_result[1] = <<5, 4, 3, 1, 2>>

\* C10 amended: that crossover yields child1 = [2,4,3,5,1]: child1 holds
\* parent2's segment [4,3] at positions 1-2, and the cities 5, 1, 2 that the
\* scan of parent1 from index 3 accepts are written to slots 3, 4, 0, from
\* index p2 on with wrap-around.
C10_ScenarioChildFromP2 ==
    OxScenario =>
        /\ h_result[1] = <<2, 4, 3, 5, 1>>
        /\ Slice(h_result[1], 1, 3) = Slice(ScenarioParent2, 1, 3)

\* the scenario crossover has run
C10_Witness ==
    /\ OxScenario
    /\ Len(h_result) = 2
    /\ Get(h_result[1], 3) = 5

\* C11 as stated: Genome.crossover called with a kind outside {ox, pmx, cx}
\* fails with an InvalidCrossoverKind error; it never returns normally
\* without producing two children.
C11_UnsupportedCrossoverFails ==
    (h_call.op = "crossover" /\ h_call.type \notin CrossoverTypes) =>
        h_call.outcome = "InvalidCrossoverKind"

\* the random values the calls logged in ev took from the random module
RECURSIVE Drawn(_)
Drawn(ev) == IF ev = <<>> THEN 0 ELSE ev[1].drawn + Drawn(Tail(ev))

\* a map of two or more cities, ELITISM <= size and size - ELITISM even
ValidConfiguration ==
    /\ CITIES >= 2
    /\ ELITISM <= size
    /\ (size - ELITISM) % 2 = 0

\* C12 as stated: generate_next_generation called with an unsupported
\* crossover or mutation kind fails with the corresponding error and
\* leaves no partial state change: the member list, every member's
\* chromosome and the state of the shared pseudorandom source are as they
\* were before the call.
C12_UnsupportedKindLeavesNoChange ==
    (ValidConfiguration
        /\ (c_type \notin CrossoverTypes \/ m_type \notin MutationTypes)) =>
        /\ pc # "returned"
        /\ pc = "raised" =>
            /\ raised \in {"InvalidCrossoverKind", InvalidMutationType}
            /\ members = prev_members
            /\ \A k \in 1..Len(members) :
                    chromosome[members[k]] = prev_chromosome[members[k]]
            /\ Drawn(events) = 0

\* C13: Genome.mutate called with a kind outside {swap, inverse, 2-opt,
\* random} raises the invalid-mutation-type exception and leaves the
\* chromosome exactly as it was before the call.
C13_UnsupportedMutationRaises ==
    (h_call.op = "mutate" /\ h_call.type \notin MutationTypes) =>
        /\ h_call.outcome = InvalidMutationType
        /\ MutOut = MutIn

\* mutate('inversion') has been called on a genome of four cities
C13_Witness ==
    /\ h_call.op = "mutate"
    /\ h_call.type = "inversion"
    /\ MutLen = 4
    /\ h_call.outcome = InvalidMutationType
    /\ MutOut = MutIn

\* C14 as stated: a configuration in which (size - E) is odd or E > size
\* is rejected at Population construction, before any generation step
\* runs: no generate_next_generation call ever starts on such a population.
C14_InvalidConfigurationRejected ==
    ((size - ELITISM) % 2 # 0 \/ ELITISM > size) =>
        /\ pc = "idle"
        /\ generation = 0
        /\ raised = "none"

\* C15 as stated: a city set of size <= 1 is rejected at Population
\* construction, so that no call starts on it and get_fitness never divides
\* by a tour length of zero.
C15_DegenerateCitySetRejected ==
    /\ CITIES <= 1 => (pc = "idle" /\ generation = 0)
    /\ raised # ZeroDivisionError

\* C16 as stated: in every generate_next_generation call, on a population
\* of any size, exactly (size - E) parents are drawn and each of them is
\* one of the K = size / 4 (integer division) highest-fitness members: fewer
\* than K members are fitter than it.
C16_ParentsFromTopK ==
    pc \in {"crossover", "mutate1", "mutate2"} =>
        /\ Len(parents) = size - ELITISM
        /\ \A k \in 1..Len(parents) :
            /\ \E m \in 1..Len(members) : members[m] = parents[k]
            /\ Cardinality({m \in 1..Len(members) :
                    FitnessLess(get_fitness(chromosome[parents[k]]),
                                get_fitness(chromosome[members[m]]))}) < TOP_K

\* C17 as stated: within one generate_next_generation call all selection
\* draws occur before any crossover call, all crossover calls occur before
\* any mutation call, and pairs are processed in index order.
C17_CrossoversBeforeMutations ==
    \A a, b \in 1..Len(events) :
        a < b =>
            /\ events[b].op = "select" => events[a].op = "select"
            /\ events[b].op = "crossover" => events[a].op # "mutate"
            /\ events[a].op = events[b].op => events[a].pair <= events[b].pair

\* C17 amended: within one generate_next_generation call all selection
\* draws occur before any crossover call; then the pairs are processed in
\* index order (0&1, 2&3, ...), and the crossover call of a pair is followed
\* by the two mutation calls on its children before the crossover call of
\* the next pair.
C17_PairByPairOrder ==
    \A a \in 1..Len(events) :
        IF a = 1 THEN events[a].op = "select"
        ELSE /\ events[a].op = IF (a - 2) % 3 = 0 THEN "crossover" ELSE "mutate"
             /\ events[a].pair = 2 * ((a - 2) \div 3)

\* a call that paired four parents has returned: the second pair's
\* crossover came after the first pair's mutations
C17_Witness ==
    /\ pc = "returned"
    /\ Len(events) = 7
    /\ events[4].op = "mutate"
    /\ events[5].op = "crossover"
    /\ events[5].pair = 2

\* C19: no genome that is a member is ever modified: the children of a
\* crossover are new objects (also when one genome is both parents),
\* mutation changes only them, and a member's chromosome is the same after
\* every step for as long as the object lives.
C19_MembersNeverModified ==
    [][/\ \A k \in 1..Len(members) :
            /\ chromosome'[members[k]] \in {chromosome[members[k]], <<>>}
            /\ (\E m \in 1..Len(members') : members'[m] = members[k])
                    => chromosome'[members[k]] = chromosome[members[k]]
       /\ (pc = "crossover" /\ pc' = "mutate1") =>
            /\ child1' > Len(chromosome)
            /\ child2' > Len(chromosome)
            /\ child1' # child2'
            /\ \A g \in 1..Len(chromosome) : chromosome'[g] = chromosome[g]]_vars

\* one genome was drawn as both parents of a pair; its first child has
\* been mutated and differs from it, and the genome is as it was when the
\* call was entered
C19_Witness ==
    /\ pc = "mutate2"
    /\ CITIES = 4
    /\ parents[i + 1] = parents[i + 2]
    /\ chromosome[child1] # chromosome[parents[i + 1]]
    /\ chromosome[parents[i + 1]] = prev_chromosome[parents[i + 1]]

\* how often a value occurs in a list
Count(l, v) == Cardinality({k \in 1..Len(l) : l[k] = v})

\* two lists hold the same values the same number of times
SameBag(l1, l2) ==
    /\ Len(l1) = Len(l2)
    /\ \A k \in 1..Len(l1) : Count(l1, l1[k]) = Count(l2, l1[k])

\* C20 as stated: the cyclic tour length get_fitness computes is the same
\* for a chromosome, for every cyclic rotation of it and for its reversal.
C20_SameTourLength ==
    h_call.op = "get_fitness" => h_result[3] = h_result[2]

\* C20 amended: the tour of a chromosome, of every cyclic rotation of it
\* and of its reversal is made of the same distances, each the same
\* number of times, so its length is the same in exact arithmetic; the
\* float get_fitness computes is the same when every distance is an
\* integer (every partial sum is then exact: it is the integer tour
\* length), and can otherwise differ in its last bits, the distances being
\* added in another order.
C20_SameDistancesSummed ==
    h_call.op = "get_fitness" =>
        /\ SameBag(tour_distances(h_call.type, h_parent1),
                   tour_distances(h_call.type, h_result[1]))
        /\ h_call.type = "rectangle" =>
            /\ h_result[3] = h_result[2]
            /\ h_result[2] = Float(tour_length(h_parent1, 0))

\* on the drawn map the rotation [2, 0, 1] of [0, 1, 2] adds the same
\* three distances and gets another float: 262.4842137412 against
\* 262.48421374120005
C20_Witness ==
    /\ h_call.op = "get_fitness"
    /\ h_call.type = "drawn"
    /\ h_parent1 = <<0, 1, 2>>
    /\ h_result[1] = <<2, 0, 1>>
    /\ h_result[2] = [hi |-> 34404330, lo |-> 115895206, e |-> -44]
    /\ h_result[3] = [hi |-> 34404330, lo |-> 115895205, e |-> -44]
    /\ SameBag(tour_distances("drawn", h_parent1),
               tour_distances("drawn", h_result[1]))

\* the cut points of the crossover call, sorted
Point1 == SortPoints(h_call.pts)[1]

Point2 == SortPoints(h_call.pts)[2]

\* position k (counted from 1) lies in the segment [p1, p2)
InSegment(k, p1, p2) == p1 < k /\ k <= p2

\* the child holds the gene when position k comes to be filled: in its
\* segment, or at a position outside the segment before k
HeldBefore(child_x, k, p1, p2, gene) ==
    \E j \in 1..Len(child_x) :
        /\ InSegment(j, p1, p2) \/ j < k
        /\ child_x[j] = gene

\* the gene reached from `gene` by following the position-wise mapping of
\* the two segments (a gene of the segment the child received is replaced
\* by the gene its own parent holds at that position) until a gene the
\* child does not hold yet is found; None when no such gene is reached
\* within `steps` replacements
RECURSIVE Resolved(_, _, _, _, _, _, _, _)
Resolved(gene, child_x, k, parent_x, other_x, p1, p2, steps) ==
    IF ~HeldBefore(child_x, k, p1, p2, gene) THEN gene
    ELSE IF steps = 0 \/ ~\E j \in (p1 + 1)..p2 : other_x[j] = gene THEN None
    ELSE Resolved(parent_x[CHOOSE j \in (p1 + 1)..p2 : other_x[j] = gene],
                  child_x, k, parent_x, other_x, p1, p2, steps - 1)

\* a child of the partially-mapped crossover, against its own parent and
\* the other one
PmxChild(child_x, parent_x, other_x, p1, p2) ==
    /\ Len(child_x) = Len(parent_x)
    /\ \A k \in 1..Len(parent_x) :
        IF InSegment(k, p1, p2) THEN child_x[k] = other_x[k]
        ELSE /\ child_x[k] # None
             /\ ~HeldBefore(child_x, k, p1, p2, child_x[k])
             /\ child_x[k] = Resolved(parent_x[k], child_x, k, parent_x,
                                      other_x, p1, p2, p2 - p1)

\* C21: in the partially-mapped crossover with cut points p1 < p2, child1
\* holds parent2's segment and child2 parent1's at [p1, p2); at every
\* position outside it the child holds its own parent's gene when the
\* child does not hold that gene yet, and otherwise the gene reached by
\* following the position-wise segment mapping from it; the resolution
\* ends, within as many replacements as the segment has pairs, on a gene
\* the child does not hold yet.
C21_PmxFillsByMapping ==
    (h_call.op = "crossover" /\ h_call.type = "pmx") =>
        /\ Point1 < Point2
        /\ Len(h_result) = 2
        /\ PmxChild(h_result[1], h_parent1, h_parent2, Point1, Point2)
        /\ PmxChild(h_result[2], h_parent2, h_parent1, Point1, Point2)

\* a partially-mapped crossover of four cities in which a gene of parent1
\* outside the segment was resolved through two mapping pairs: one
\* replacement does not reach a gene child1 lacks, two do
C21_Witness ==
    /\ h_call.op = "crossover"
    /\ h_call.type = "pmx"
    /\ Len(h_parent1) = 4
    /\ \E k \in 1..4 :
        /\ ~InSegment(k, Point1, Point2)
        /\ Resolved(h_parent1[k], h_result[1], k, h_parent1, h_parent2,
                    Point1, Point2, 1) = None
        /\ Resolved(h_parent1[k], h_result[1], k, h_parent1, h_parent2,
                    Point1, Point2, 2) = h_result[1][k]
        /\ h_result[1][k] # None
    /\ PmxChild(h_result[1], h_parent1, h_parent2, Point1, Point2)

\* a child of the order crossover, against the parent its segment came
\* from (donor_x) and the other parent (parent_x): the segment is the
\* donor's, and the slots p2, p2 + 1, ..., wrapping to p1 - 1, hold the
\* cities of parent_x that are not in the segment, in the order parent_x
\* has them when read cyclically from index p2
OxChild(child_x, parent_x, donor_x, p1, p2) ==
    LET n == Len(parent_x)
        NotCopied(city) == ~\E j \in (p1 + 1)..p2 : donor_x[j] = city
        rest == SelectSeq(Rotate(parent_x, p2), NotCopied)
    IN  /\ Len(child_x) = n
        /\ \A k \in (p1 + 1)..p2 : child_x[k] = donor_x[k]
        /\ Len(rest) = n - (p2 - p1)
        /\ \A j \in 1..Len(rest) : Get(child_x, (p2 + j - 1) % n) = rest[j]

\* C22: in the order crossover with cut points p1 < p2, child1 holds
\* parent2's segment [p1, p2) at the same positions and child2 parent1's,
\* and the remaining slots of each child, taken in the cyclic order p2,
\* p2 + 1, ..., wrapping to p1 - 1, hold the cities of the other parent
\* that are not in the copied segment, in the order in which they appear
\* when that parent is read cyclically starting at index p2.
C22_OxFillsInCyclicOrder ==
    (h_call.op = "crossover" /\ h_call.type = "ox") =>
        /\ Point1 < Point2
        /\ Len(h_result) = 2
        /\ OxChild(h_result[1], h_parent1, h_parent2, Point1, Point2)
        /\ OxChild(h_result[2], h_parent2, h_parent1, Point1, Point2)

\* an order crossover of four cities with the segment [1, 3): the two
\* remaining slots are 3 and, after the wrap, 0; parent1 read from index 3
\* offers a city of the segment, which is skipped, before the city that
\* goes to slot 0, and child1 is neither parent
C22_Witness ==
    /\ h_call.op = "crossover"
    /\ h_call.type = "ox"
    /\ Len(h_parent1) = 4
    /\ Point1 = 1 /\ Point2 = 3
    /\ \E j \in 2..3 : h_parent2[j] \in {Get(h_parent1, 3), Get(h_parent1, 0)}
    /\ Get(h_result[1], 0) # Get(h_parent1, 0)
    /\ h_result[1] # h_parent1 /\ h_result[1] # h_parent2
    /\ OxChild(h_result[1], h_parent1, h_parent2, Point1, Point2)

\* the fitness of a genome of the heap
FitnessOf(heap, genome) == get_fitness(heap[genome])

\* C23: with ELITISM >= 1 the best fitness in the population never
\* decreases: when a call has returned, some member is at least as fit as
\* each member was when the call was entered; the genome the call returns
\* is a member of the new generation and at least as fit as every genome
\* returned before it (run_best_fitness is the best of those), so that,
\* once __main__ has compared it, the best fitness of the run is the
\* fitness of the genome returned last.
C23_BestNeverDecreases ==
    ELITISM >= 1 =>
        /\ pc = "returned" =>
            /\ \A k \in 1..Len(prev_members) : \E j \in 1..Len(members) :
                    FitnessLeq(PrevFitness(prev_members[k]),
                               FitnessOf(chromosome, members[j]))
            /\ \E j \in 1..Len(members) : members[j] = best
            /\ FitnessLeq(run_best_fitness, FitnessOf(chromosome, best))
        /\ (pc # "returned" /\ best # 0) =>
            run_best_fitness = FitnessOf(chromosome, best)

\* the second call of a run on four cities has returned a genome that is
\* fitter than the one the first call returned (whose fitness is still the
\* best of the run): a child of the first call.  It is a member of the new
\* generation, next to a child of the second call that is less fit
C23_Witness ==
    /\ pc = "returned"
    /\ generation = 1
    /\ CITIES = 4
    /\ ELITISM >= 1
    /\ FitnessLess(run_best_fitness, FitnessOf(chromosome, best))
    /\ best > Len(prev_members)
    /\ \E j \in 1..Len(members) : members[j] = best
    /\ \E j \in 1..Len(members) :
        /\ members[j] > Len(prev_chromosome)
        /\ FitnessLess(FitnessOf(chromosome, members[j]),
                       FitnessOf(chromosome, best))

\* the cell is inside the maze and holds no wall
Open(m, cell) ==
    /\ cell \in Cells(m.height, m.width)
    /\ ~Wall(m.walls, cell[1], cell[2])

\* two cells next to each other in a row or in a column
Adjacent(c, d) ==
    \/ c[1] = d[1] /\ (c[2] = d[2] + 1 \/ d[2] = c[2] + 1)
    \/ c[2] = d[2] /\ (c[1] = d[1] + 1 \/ d[1] = c[1] + 1)

\* the open cells within n moves of a cell of S
RECURSIVE Within(_, _, _)
Within(m, S, n) ==
    LET T == {d \in Cells(m.height, m.width) :
                 Open(m, d) /\ \E c \in S : Adjacent(c, d)}
    IN  IF n = 0 \/ T \subseteq S THEN S
        ELSE Within(m, S \cup T, n - 1)

\* the goal is reachable from the start
Reachable(m) == m.goal \in Within(m, {m.start}, m.height * m.width)

\* the cell one move of the walk leads to
Moved(cell, move) ==
    IF move = "up" THEN <<cell[1] - 1, cell[2]>>
    ELSE IF move = "down" THEN <<cell[1] + 1, cell[2]>>
    ELSE IF move = "left" THEN <<cell[1], cell[2] - 1>>
    ELSE <<cell[1], cell[2] + 1>>

\* the moves from the k-th on, made from the cell, pass through open
\* cells only and end on the goal
RECURSIVE LeadsToGoal(_, _, _, _)
LeadsToGoal(m, cell, moves, k) ==
    IF k > Len(moves) THEN cell = m.goal
    ELSE /\ moves[k] \in {"up", "down", "left", "right"}
         /\ Open(m, Moved(cell, moves[k]))
         /\ LeadsToGoal(m, Moved(cell, moves[k]), moves, k + 1)

\* the states of the nodes in the frontier
FrontierStates == [k \in 1..Len(frontier) |-> nodes[frontier[k]].state]

\* no value occurs twice in the list
NoRepeats(l) == \A a, b \in 1..Len(l) : a # b => l[a] # l[b]

\* what solve keeps and how it stops
SolveSafe ==
    /\ NoRepeats(FrontierStates)
    /\ NoRepeats(explored)
    /\ \A k \in 1..Len(frontier) : ~In(FrontierStates[k], explored)
    /\ solve_pc = "solved" =>
        /\ nodes[node].state = maze.goal
        /\ LeadsToGoal(maze, maze.start, solution, 1)
        /\ Len(solution) = nodes[node].cost
        /\ Reachable(maze)
    /\ solve_pc = NoSolution => frontier = <<>> /\ ~Reachable(maze)
    /\ (solve_pc = "loop" /\ frontier = <<>>) => ~Reachable(maze)

\* solve has stopped: it left the loop at the goal or raised the exception
SolveDone == solve_pc \in {"solved", NoSolution}

\* C24: for every maze with one start and one goal, solve terminates: when
\* the goal is reachable it stops at a node whose state is the goal, with
\* an action sequence that leads from the start to the goal through
\* in-bounds cells without a wall and whose length is the node's cost; it
\* raises 'no solution' when the frontier is empty, which happens only
\* when the goal is unreachable.  Throughout, no state is in the frontier
\* twice and no explored state is in the frontier.
C24_SolveTerminates == []SolveSafe /\ <>SolveDone

\* solve has found the goal of a maze of two rows and three columns after
\* walking into a dead end: it explored more states than the solution has
\* moves, and left a node in the frontier
C24_Witness ==
    /\ solve_pc = "solved"
    /\ maze.height = 2 /\ maze.width = 3
    /\ Len(solution) >= 2
    /\ Len(explored) > Len(solution)
    /\ frontier # <<>>
    /\ LeadsToGoal(maze, maze.start, solution, 1)

====
